---- MODULE Spec2Model ----
(***************************************************************************)
(* MiddlewareEndpoint of next-api (middleware.rs): the output_assets task  *)
(* (edge_files, the try_join over the per-file relative paths, the matcher *)
(* list, the manifest and its virtual asset), write_to_disk and the        *)
(* server_changed / client_changed completions.                            *)
(*                                                                         *)
(* Option<T> is a sequence of length 0 (None) or 1 (Some); Result<T> is a  *)
(* record [ok, val, err]; a FileSystemPath is its sequence of segments.    *)
(***************************************************************************)
EXTENDS Integers, Sequences, FiniteSets, TLC

\* ------------------------------------------------------------------ bounds
\* longest chunk group the chunking engine returns
MaxFiles == 2
\* longest explicit matcher list of a parsed config
MaxMatchers == 2
\* edits of the userland module during one session
MaxEdits == 1

\* ------------------------------------------------------- Option and Result
None == <<>>
Some(v) == <<v>>

Ok(v) == [ok |-> TRUE, val |-> v, err |-> ""]
Err(m) == [ok |-> FALSE, val |-> <<>>, err |-> m]

\* ------------------------------------------------------------------- paths
\* project.node_root()
NodeRoot == <<"proj", ".out">>

\* paths the chunking engine may give an output file: two under the node
\* root and one beside it
ChunkPaths ==
  { NodeRoot \o <<"server", "middleware", "edge.js">>,
    NodeRoot \o <<"server", "edge-runtime.js">>,
    <<"proj", "src", "stray.js">> }

IsPrefix(p, q) == Len(p) <= Len(q) /\ SubSeq(q, 1, Len(p)) = p

\* FileSystemPath::get_path_to: the rest of inner below root, None when inner
\* is not strictly inside root
get_path_to(root, inner) ==
  IF IsPrefix(root, inner) /\ Len(inner) > Len(root)
    THEN Some(SubSeq(inner, Len(root) + 1, Len(inner)))
    ELSE None

\* the to_string() of a relative path: its segments joined by "/"
RECURSIVE PathString(_)
PathString(segs) ==
  IF segs = <<>> THEN ""
  ELSE IF Len(segs) = 1 THEN segs[1]
  ELSE segs[1] \o "/" \o PathString(Tail(segs))

\* node_root.join("server/middleware/middleware-manifest.json")
ManifestPath == NodeRoot \o <<"server", "middleware", "middleware-manifest.json">>

\* ---------------------------------------------------------------- matchers
Patterns == {"/api/:path*", "(("}

\* MiddlewareMatcher { ..Default::default() }
DefaultMatcher ==
  [regexp |-> None, original_source |-> "", locale |-> None,
   has |-> None, missing |-> None]

\* variant: the catch-all without its compiled regexp
CatchAllMatcher_NoRegexp ==
  [DefaultMatcher EXCEPT !.original_source = "/:path*"]

\* the else branch: the catch-all matcher
CatchAllMatcher ==
  [DefaultMatcher EXCEPT !.regexp = Some("^/.*$"), !.original_source = "/:path*"]

\* variant: the configured source put into a copy of the catch-all
MatcherFromSource_WithRegexp(matcher) ==
  [DefaultMatcher EXCEPT !.regexp = Some("^/.*$"), !.original_source = matcher]

\* the if-let branch: one matcher per configured source, only
\* original_source set
MatcherFromSource(matcher) == [DefaultMatcher EXCEPT !.original_source = matcher]

\* let matchers = if let Some(matchers) = config.matcher { .. } else { .. }
MatchersOf(matcher) ==
  IF matcher # None
    THEN [i \in 1..Len(matcher[1]) |-> MatcherFromSource(matcher[1][i])]
    ELSE <<CatchAllMatcher>>

\* ---------------------------------------------------------------- manifest
\* EdgeFunctionDefinition { files, name, page, regions, matchers, .. }
EdgeFunctionDefinitionOf(files, matchers) ==
  [files |-> files, name |-> "middleware", page |-> "/", regions |-> None,
   matchers |-> matchers]

\* MiddlewaresManifestV2 { middleware: [("/", definition)].collect(), .. }
MiddlewaresManifestV2Of(definition) ==
  [middleware |-> [k \in {"/"} |-> definition]]

JsonString(s) == "\"" \o s \o "\""
JsonOption(o) == IF o = None THEN "null" ELSE JsonString(o[1])

RECURSIVE JsonStrings(_)
JsonStrings(ss) ==
  IF ss = <<>> THEN <<>> ELSE <<JsonString(Head(ss))>> \o JsonStrings(Tail(ss))

JsonMatcher(m) ==
  <<"{", "regexp:", JsonOption(m.regexp),
    "originalSource:", JsonString(m.original_source), "}">>

RECURSIVE JsonMatchers(_)
JsonMatchers(ms) ==
  IF ms = <<>> THEN <<>> ELSE JsonMatcher(Head(ms)) \o JsonMatchers(Tail(ms))

JsonDefinition(d) ==
  <<"{", "files:", "[">> \o JsonStrings(d.files) \o <<"]",
    "name:", JsonString(d.name), "page:", JsonString(d.page),
    "regions:", JsonOption(d.regions),
    "matchers:", "[">> \o JsonMatchers(d.matchers) \o <<"]", "}">>

\* serde_json::to_string_pretty(&middleware_manifest_v2): the lines of the
\* document
to_string_pretty(manifest) ==
  Ok(<<"{", "version: 2", "middleware:", "{", JsonString("/") \o ":">>
     \o JsonDefinition(manifest.middleware["/"]) \o <<"}", "}">>)

\* ------------------------------------------------------------------ inputs
SeqsUpTo(S, n) == UNION {[1..k -> S] : k \in 0..n}

IsInjective(s) == \A i, j \in DOMAIN s : s[i] = s[j] => i = j

\* evaluated_chunk_group(..): an ordered set of distinct output files
ChunkGroups == {g \in SeqsUpTo(ChunkPaths, MaxFiles) : IsInjective(g)}

\* parse_config_from_source(userland_module).await: the parsed config's
\* matcher field (Option<Vec<String>>), or the error the await surfaces
Configs ==
  {Err("config could not be read"), Ok(None)}
    \cup {Ok(Some(ms)) : ms \in SeqsUpTo(Patterns, MaxMatchers)}

\* ------------------------------------------------------------------- state
VARIABLES
  userland_rev,           \* revision of self.userland_module's content
  edge_files_cell,        \* cell of the edge_files task: None or Some(Result)
  config_cell,            \* cell of parse_config_from_source, once awaited
  oa_pc,                  \* output_assets task: idle, edge_files, paths, done
  output_assets,          \* let mut output_assets (the local Vec)
  files_paths_from_root,  \* the try_join's output slots, None while empty
  join_pending,           \* the futures of the try_join still running
  middleware_manifest_v2, \* the manifest struct built by the task, if any
  oa_result,              \* cell of the output_assets task: None or Some(Result)
  oa_gen,                 \* the module revision this execution read, if any
  wtd_state,              \* write_to_disk: Unbuilt, Building, Written, Failed
  emit_invoked,           \* emit_all_output_assets was called with the handle
  emitted,                \* number of assets this write_to_disk materialised
  persisted,              \* the assets this write_to_disk materialised
  written,                \* the WrittenEndpoint::Edge server_paths, if any
  last_server,            \* the server_changed completion last observed
  server_fired,           \* whether the last observation was a change
  changed_since_check,    \* history: the module was edited since last_server
  prev_run                \* history: the last assembly an edit superseded

vars ==
  <<userland_rev, edge_files_cell, config_cell, oa_pc, output_assets,
    files_paths_from_root, join_pending, middleware_manifest_v2, oa_result,
    oa_gen, wtd_state, emit_invoked, emitted, persisted, written, last_server,
    server_fired, changed_since_check, prev_run>>

oa_vars ==
  <<edge_files_cell, config_cell, oa_pc, output_assets, files_paths_from_root,
    join_pending, middleware_manifest_v2, oa_result, oa_gen>>
wtd_vars == <<wtd_state, emit_invoked, emitted, persisted, written>>
watch_vars == <<last_server, server_fired, changed_since_check>>

Init ==
  /\ userland_rev = 0
  /\ edge_files_cell = None
  /\ config_cell = None
  /\ oa_pc = "idle"
  /\ output_assets = <<>>
  /\ files_paths_from_root = <<>>
  /\ join_pending = {}
  /\ middleware_manifest_v2 = None
  /\ oa_result = None
  /\ oa_gen = None
  /\ wtd_state = "Unbuilt"
  /\ emit_invoked = FALSE
  /\ emitted = 0
  /\ persisted = {}
  /\ written = None
  /\ last_server = None
  /\ server_fired = FALSE
  /\ changed_since_check = FALSE
  /\ prev_run = None

\* ------------------------------------------------------------- edge_files
\* the output files of the chunk group; their content embeds the module
ChunkAssets(rev, group) ==
  [i \in 1..Len(group) |->
     [path |-> group[i], content |-> <<"chunk", ToString(rev)>>]]

\* edge_files(): bail!("Entry module must be evaluatable") when the wrapped
\* entry does not resolve to an evaluatable chunk item, else the chunk group
edge_files(evaluatable, rev, group) ==
  IF ~evaluatable
    THEN Err("Entry module must be evaluatable")
    ELSE Ok(ChunkAssets(rev, group))

\* ---------------------------------------------------------- output_assets
\* self.output_assets(): the memoized task is scheduled on its first call
CallOutputAssets == IF oa_pc = "idle" THEN "edge_files" ELSE oa_pc

\* let mut output_assets = self.edge_files().await?.clone_value();
\* evaluatable and group are what the asset context and the chunking engine
\* answer for the current module
OutputAssets_EdgeFiles ==
  /\ oa_pc = "edge_files"
  /\ \E evaluatable \in BOOLEAN, group \in ChunkGroups :
       LET r == edge_files(evaluatable, userland_rev, group) IN
         /\ edge_files_cell' = Some(r)
         /\ IF r.ok
              THEN /\ output_assets' = r.val
                   /\ files_paths_from_root' = [i \in 1..Len(r.val) |-> None]
                   /\ join_pending' = 1..Len(r.val)
                   /\ oa_pc' = "paths"
                   /\ oa_result' = None
              ELSE /\ oa_result' = Some(Err(r.err))
                   /\ oa_pc' = "done"
                   /\ UNCHANGED <<output_assets, files_paths_from_root,
                                  join_pending>>
  /\ oa_gen' = Some(userland_rev)
  /\ UNCHANGED <<userland_rev, config_cell, middleware_manifest_v2, wtd_vars,
                 watch_vars, prev_run>>

\* variant: outputs collected in the order the futures complete
JoinSlot_CompletionOrder(slots, i, v) ==
  LET k == CHOOSE k \in DOMAIN slots :
             slots[k] = None /\ \A j \in 1..(k - 1) : slots[j] # None
  IN  [slots EXCEPT ![k] = Some(v)]

\* try_join keeps each future's output at the future's own index
JoinSlot(slots, i, v) == [slots EXCEPT ![i] = Some(v)]

\* variant: a file outside the node root keeps its full path
FilePathFromRoot_Fallback(file) ==
  LET p == get_path_to(NodeRoot, file.path) IN
    IF p # None THEN Ok(PathString(p[1])) ELSE Ok(PathString(file.path))

\* what one future of the try_join yields for its file: the relative path as
\* a String, or the context error
FilePathFromRoot(file) ==
  LET p == get_path_to(NodeRoot, file.path) IN
    IF p # None
      THEN Ok(PathString(p[1]))
      ELSE Err("middleware file path must be inside the node root")

\* one future of the try_join completes; an error ends the join at once
OutputAssets_PathJoined(i) ==
  /\ oa_pc = "paths"
  /\ i \in join_pending
  /\ LET r == FilePathFromRoot(output_assets[i]) IN
       IF r.ok
         THEN /\ files_paths_from_root' = JoinSlot(files_paths_from_root, i, r.val)
              /\ join_pending' = join_pending \ {i}
              /\ UNCHANGED <<oa_pc, oa_result>>
         ELSE /\ oa_result' = Some(Err(r.err))
              /\ oa_pc' = "done"
              /\ UNCHANGED <<files_paths_from_root, join_pending>>
  /\ UNCHANGED <<userland_rev, edge_files_cell, config_cell, output_assets,
                 middleware_manifest_v2, oa_gen, wtd_vars, watch_vars, prev_run>>

\* the joined Vec<String>
JoinedFiles(slots) == [i \in DOMAIN slots |-> slots[i][1]]

\* variant: the entry's name stamped with the build it came from
ManifestOf_Stamped(files, matcher) ==
  MiddlewaresManifestV2Of(
    [EdgeFunctionDefinitionOf(files, MatchersOf(matcher))
       EXCEPT !.name = "middleware-" \o ToString(userland_rev)])

\* the definition and the manifest around it
ManifestOf(files, matcher) ==
  MiddlewaresManifestV2Of(EdgeFunctionDefinitionOf(files, MatchersOf(matcher)))

\* VirtualOutputAsset::new(node_root.join(..), AssetContent::file(..))
ManifestAsset(text) == [path |-> ManifestPath, content |-> text]

\* variant: the manifest put in front of the bundle's files
PushManifest_Front(assets, asset) == <<asset>> \o assets

\* output_assets.push(middleware_manifest_v2)
PushManifest(assets, asset) == Append(assets, asset)

\* after the join: config.await?, the matchers, the manifest, its
\* serialization (?), the push and Ok(Vc::cell(output_assets)); config is
\* what parse_config_from_source answers for the current module
OutputAssets_Assemble ==
  /\ oa_pc = "paths"
  /\ join_pending = {}
  /\ \E config \in Configs :
       /\ config_cell' = Some(config)
       /\ IF ~config.ok
            THEN /\ oa_result' = Some(Err(config.err))
                 /\ UNCHANGED <<output_assets, middleware_manifest_v2>>
            ELSE LET manifest ==
                       ManifestOf(JoinedFiles(files_paths_from_root), config.val)
                     text == to_string_pretty(manifest)
                 IN  IF ~text.ok
                       THEN /\ oa_result' = Some(Err(text.err))
                            /\ UNCHANGED <<output_assets, middleware_manifest_v2>>
                       ELSE /\ middleware_manifest_v2' = Some(manifest)
                            /\ output_assets' =
                                 PushManifest(output_assets, ManifestAsset(text.val))
                            /\ oa_result' = Some(Ok(output_assets'))
  /\ oa_pc' = "done"
  /\ UNCHANGED <<userland_rev, edge_files_cell, files_paths_from_root,
                 join_pending, oa_gen, wtd_vars, watch_vars, prev_run>>

\* ---------------------------------------------------------- write_to_disk
\* let output_assets = self.output_assets();
\* this.project.emit_all_output_assets(Vc::cell(output_assets))
\* The call of output_assets is not awaited here: emit_all_output_assets is
\* invoked with the handle of the (possibly still running) task.
WriteToDisk_Call ==
  /\ wtd_state = "Unbuilt"
  /\ wtd_state' = "Building"
  /\ oa_pc' = CallOutputAssets
  /\ emit_invoked' = TRUE
  /\ UNCHANGED <<userland_rev, edge_files_cell, config_cell, output_assets,
                 files_paths_from_root, join_pending, middleware_manifest_v2,
                 oa_result, oa_gen, emitted, persisted, written, watch_vars,
                 prev_run>>

\* a file written under the output root replaces the file at its path
WriteFile(files, asset) == {f \in files : f.path # asset.path} \cup {asset}

\* Project::emit_all_output_assets resolves the handle it was given; the
\* task's error is its own error and .await? returns it from write_to_disk
EmitAllOutputAssets_Fail ==
  /\ wtd_state = "Building"
  /\ emit_invoked
  /\ oa_pc = "done"
  /\ ~oa_result[1].ok
  /\ wtd_state' = "Failed"
  /\ UNCHANGED <<userland_rev, emit_invoked, emitted, persisted, written,
                 oa_vars, watch_vars, prev_run>>

\* Project::emit_all_output_assets materialises the resolved assets one by
\* one
EmitAllOutputAssets_Asset ==
  /\ wtd_state = "Building"
  /\ emit_invoked
  /\ oa_pc = "done"
  /\ oa_result[1].ok
  /\ emitted < Len(oa_result[1].val)
  /\ persisted' = WriteFile(persisted, oa_result[1].val[emitted + 1])
  /\ emitted' = emitted + 1
  /\ UNCHANGED <<userland_rev, wtd_state, emit_invoked, written, oa_vars,
                 watch_vars, prev_run>>

\* variant: the emit call's result is dropped instead of awaited
EmitCompleted_Unawaited == emit_invoked /\ oa_pc = "done"

\* .await? on emit_all_output_assets: every asset of the set is on disk
EmitCompleted ==
  /\ emit_invoked
  /\ oa_pc = "done"
  /\ oa_result[1].ok
  /\ emitted = Len(oa_result[1].val)

\* all_server_paths(output_assets, node_root): the paths, relative to the
\* node root, of the assets under it
RECURSIVE all_server_paths(_, _)
all_server_paths(assets, root) ==
  IF assets = <<>> THEN <<>>
  ELSE LET p == get_path_to(root, Head(assets).path) IN
       (IF p = None THEN <<>> ELSE <<PathString(p[1])>>)
         \o all_server_paths(Tail(assets), root)

\* variant: the server paths taken from the bundle's files alone
ServerPathsRoots_EdgeFiles == edge_files_cell[1].val

\* the assets write_to_disk hands to all_server_paths: the same handle
ServerPathsRoots == oa_result[1].val

\* let server_paths = all_server_paths(output_assets, node_root).await?;
\* Ok(WrittenEndpoint::Edge { server_paths }.cell())
WriteToDisk_Return ==
  /\ wtd_state = "Building"
  /\ EmitCompleted
  /\ written' = Some(all_server_paths(ServerPathsRoots, NodeRoot))
  /\ wtd_state' = "Written"
  /\ UNCHANGED <<userland_rev, emit_invoked, emitted, persisted, oa_vars,
                 watch_vars, prev_run>>

\* --------------------------------------------- server_changed, client_changed
\* Completion::immutable(): a completion that never changes
Immutable == [gen |-> None]

\* Project::server_changed(roots): a completion that is renewed whenever the
\* computation behind roots is executed again
ProjectServerChanged(gen) == [gen |-> gen]

\* variant: server_changed answering as client_changed does
server_changed_Immutable == Immutable

\* self.await?.project.server_changed(self.output_assets())
server_changed == ProjectServerChanged(oa_gen)

\* Completion::immutable()
client_changed == Immutable

\* server_changed() calls self.output_assets(): the task is scheduled if it
\* has not run for the current inputs
ServerChanged_Call ==
  /\ oa_pc = "idle"
  /\ oa_pc' = CallOutputAssets
  /\ UNCHANGED <<userland_rev, edge_files_cell, config_cell, output_assets,
                 files_paths_from_root, join_pending, middleware_manifest_v2,
                 oa_result, oa_gen, wtd_vars, watch_vars, prev_run>>

\* the watch loop reads the completion once the tracked computation has
\* settled: it has fired when it is not the completion read before
ServerChanged_Observe ==
  /\ oa_pc = "done"
  /\ server_fired' = (last_server # None /\ last_server[1] # server_changed)
  /\ last_server' = Some(server_changed)
  /\ changed_since_check' = FALSE
  /\ UNCHANGED <<userland_rev, oa_vars, wtd_vars, prev_run>>

\* ------------------------------------------------------------ module edits
\* the assembly the output_assets cell holds: the paths of the bundle's
\* files, the matcher list and the manifest text (kept as prev_run when an
\* edit supersedes it)
LastRun ==
  IF oa_pc = "done" /\ oa_result[1].ok
    THEN Some([files |-> [i \in DOMAIN edge_files_cell[1].val |->
                            edge_files_cell[1].val[i].path],
               matchers |-> middleware_manifest_v2[1].middleware["/"].matchers,
               content |-> output_assets[Len(output_assets)].content])
    ELSE prev_run

\* The userland module's content changes: the engine drops what was derived
\* from it (the cells of edge_files, of the config, of output_assets and of
\* write_to_disk) and supersedes in-flight work with a fresh computation.
EditModule ==
  /\ userland_rev < MaxEdits
  /\ userland_rev' = userland_rev + 1
  /\ edge_files_cell' = None
  /\ config_cell' = None
  /\ oa_pc' = "idle"
  /\ output_assets' = <<>>
  /\ files_paths_from_root' = <<>>
  /\ join_pending' = {}
  /\ middleware_manifest_v2' = None
  /\ oa_result' = None
  /\ oa_gen' = None
  /\ wtd_state' = "Unbuilt"
  /\ emit_invoked' = FALSE
  /\ emitted' = 0
  /\ persisted' = {}
  /\ written' = None
  /\ changed_since_check' = TRUE
  /\ prev_run' = LastRun
  /\ UNCHANGED <<last_server, server_fired>>

\* ----------------------------------------------------------- specification
Next ==
  \/ OutputAssets_EdgeFiles
  \/ \E i \in join_pending : OutputAssets_PathJoined(i)
  \/ OutputAssets_Assemble
  \/ WriteToDisk_Call
  \/ EmitAllOutputAssets_Fail
  \/ EmitAllOutputAssets_Asset
  \/ WriteToDisk_Return
  \/ ServerChanged_Call
  \/ ServerChanged_Observe
  \/ EditModule

Spec == Init /\ [][Next]_vars

\* ------------------------------------------------------------------ claims
Done == oa_pc = "done"
Assembled == Done /\ oa_result[1].ok
AssemblyFailed == Done /\ ~oa_result[1].ok
BundleResolved == edge_files_cell # None /\ edge_files_cell[1].ok
Bundle == edge_files_cell[1].val
BundlePaths == [i \in DOMAIN Bundle |-> Bundle[i].path]
Entry == middleware_manifest_v2[1].middleware["/"]
ManifestText == output_assets[Len(output_assets)].content
ConfigMatcher == config_cell[1].val
InRoot1 == <<"proj", ".out", "server", "middleware", "edge.js">>
InRoot2 == <<"proj", ".out", "server", "edge-runtime.js">>
Stray == <<"proj", "src", "stray.js">>
UnderNodeRoot(path) == Len(path) > 2 /\ path[1] = "proj" /\ path[2] = ".out"

\* C1: every manifest output_assets produces has at least one matcher for
\* route "/", also when the config's matcher field is present but empty.
C1_MatchersNeverEmpty ==
  Assembled => middleware_manifest_v2 # None /\ Len(Entry.matchers) >= 1

\* C2: with no matcher field in the parsed config the matcher list is exactly
\* the one catch-all matcher (original_source "/:path*", regexp "^/.*$", all
\* other fields default), whatever files the bundle has.
C2_DefaultMatcher ==
  (Assembled /\ ConfigMatcher = None) =>
    Entry.matchers =
      << [regexp |-> <<"^/.*$">>, original_source |-> "/:path*",
          locale |-> <<>>, has |-> <<>>, missing |-> <<>>] >>

C2_Witness ==
  Assembled /\ ConfigMatcher = None /\ Len(Bundle) = 2

\* C3: an explicit matcher list of n >= 1 sources yields n matchers in the
\* same order, the i-th with original_source equal to the i-th source as
\* given and no regexp.
C3_MatcherPassThrough ==
  (Assembled /\ ConfigMatcher # None /\ Len(ConfigMatcher[1]) >= 1) =>
    /\ Len(Entry.matchers) = Len(ConfigMatcher[1])
    /\ \A i \in DOMAIN ConfigMatcher[1] :
         /\ Entry.matchers[i].original_source = ConfigMatcher[1][i]
         /\ Entry.matchers[i].regexp = <<>>

C3_Witness ==
  Assembled /\ ConfigMatcher = << <<"((", "/api/:path*">> >>

\* C4: the entry's files are the bundle's output files, one each and in the
\* engine's order, as paths relative to the node root; the manifest's own
\* path is not among them; the order in which the path computations complete
\* does not show.
C4_FilesFollowBundle ==
  Assembled =>
    /\ Len(Entry.files) = Len(Bundle)
    /\ \A i \in DOMAIN Bundle :
         /\ "proj/.out/" \o Entry.files[i] = PathString(Bundle[i].path)
         /\ Entry.files[i] # "server/middleware/middleware-manifest.json"

C4_Witness ==
  Assembled /\ BundlePaths = <<InRoot2, InRoot1>>

\* C5: when some file of the bundle lies outside the node root, output_assets
\* produces no manifest and no Ok result, and once settled it holds the path
\* error, wherever the file stands and whichever paths were computed first.
C5_OutsideRootFails ==
  (BundleResolved /\ \E i \in DOMAIN Bundle : ~UnderNodeRoot(Bundle[i].path)) =>
    /\ middleware_manifest_v2 = None
    /\ oa_result # None => ~oa_result[1].ok
    /\ Done => oa_result[1].err = "middleware file path must be inside the node root"

C5_Witness ==
  /\ AssemblyFailed
  /\ BundleResolved
  /\ BundlePaths = <<InRoot1, Stray>>
  /\ files_paths_from_root[1] # None

\* C6 as stated: when the assembly fails, emit_all_output_assets is not
\* invoked, nothing is persisted and write_to_disk does not end Written.
C6_EmitNotInvokedOnFailure ==
  AssemblyFailed =>
    ~emit_invoked /\ persisted = {} /\ wtd_state # "Written"

\* C6 as amended: when the assembly fails, emit_all_output_assets (which
\* write_to_disk has called with the handle of the task) materialises no
\* asset, no WrittenEndpoint::Edge is returned, and write_to_disk leaves
\* Building only into Failed.
C6_NothingPersistedOnFailure ==
  /\ [](AssemblyFailed =>
          /\ persisted = {}
          /\ emitted = 0
          /\ written = None
          /\ wtd_state \in {"Unbuilt", "Building", "Failed"})
  /\ [][(AssemblyFailed /\ wtd_state = "Building" /\ wtd_state' # "Building"
           /\ userland_rev' = userland_rev)
          => wtd_state' = "Failed"]_vars

C6_Witness ==
  AssemblyFailed /\ emit_invoked /\ wtd_state = "Failed" /\ BundleResolved

\* C7: a successful result is the bundle's files, unchanged and in order,
\* followed by exactly one manifest asset at
\* <node root>/server/middleware/middleware-manifest.json, whose content is
\* the serialization of a manifest with the single entry "/", named
\* "middleware", page "/", built from the current bundle.
C7_BundleThenManifest ==
  Assembled =>
    /\ Len(oa_result[1].val) = Len(Bundle) + 1
    /\ SubSeq(oa_result[1].val, 1, Len(Bundle)) = Bundle
    /\ oa_result[1].val[Len(Bundle) + 1].path =
         <<"proj", ".out", "server", "middleware", "middleware-manifest.json">>
    /\ \A i \in DOMAIN Bundle : Bundle[i].path # oa_result[1].val[Len(Bundle) + 1].path
    /\ oa_result[1].val[Len(Bundle) + 1].content =
         to_string_pretty(middleware_manifest_v2[1]).val
    /\ DOMAIN middleware_manifest_v2[1].middleware = {"/"}
    /\ Entry.name = "middleware"
    /\ Entry.page = "/"
    /\ Len(Entry.files) = Len(Bundle)

C7_Witness ==
  Assembled /\ userland_rev >= 1 /\ Len(Bundle) = 2 /\ prev_run # None
    /\ Len(prev_run[1].files) = 1

\* C8: an observation of server_changed fires exactly when the userland
\* module was edited since the observation before it: never while the inputs
\* are unchanged, always on the next check after an edit.
C8_FiresOnlyOnChange ==
  [][ServerChanged_Observe =>
       (server_fired' <=> (last_server # None /\ changed_since_check))]_vars

C8_Witness ==
  server_fired /\ wtd_state = "Written"

C10_Lifecycle ==
  /\ [](wtd_state = "Written" =>
          /\ Assembled
          /\ emitted = Len(oa_result[1].val)
          /\ persisted = {oa_result[1].val[i] : i \in DOMAIN oa_result[1].val}
          /\ written # None
          /\ Len(written[1]) = Len(Bundle) + 1
          /\ \A i \in DOMAIN oa_result[1].val :
               "proj/.out/" \o written[1][i] = PathString(oa_result[1].val[i].path))
  /\ [][IF userland_rev' = userland_rev
          THEN \/ wtd_state' = wtd_state
               \/ <<wtd_state, wtd_state'>> \in
                    { <<"Unbuilt", "Building">>, <<"Building", "Written">>,
                      <<"Building", "Failed">> }
          ELSE wtd_state' = "Unbuilt"]_vars

C10_Witness ==
  wtd_state = "Written" /\ Len(oa_result[1].val) = 3 /\ userland_rev >= 1

====
